---- MODULE Spec2Model ----
(***************************************************************************)
(* A model of the FUSE bridge of file-roller (src/src/fr-fuse.c): the      *)
(* inode table and its reverse path map, the reconciliation of the table   *)
(* against the archive listing, the kernel-request handlers and the        *)
(* extract -> load -> reply pipeline behind read.                          *)
(*                                                                         *)
(* Inode numbers are 0-based as in the C code: inode i is inodes[i + 1].   *)
(* A path is the sequence of its components; an absolute path starts with  *)
(* the component "/", and a trailing "" component is a trailing slash.     *)
(***************************************************************************)
EXTENDS Integers, Sequences, FiniteSets, TLC

VARIABLES
    inodes,     \* ff->inodes: the slots, a descriptor or NULL each
    paths,      \* ff->paths: full_path -> the inode whose descriptor it holds
    archive,    \* ff->archive: member -> its content, or NULL when absent
    work_dir,   \* ff->work_dir: member -> its extracted copy, or NULL
    opens,      \* kernel side: inode -> number of open handles on it
    pending,    \* reads in flight: the _extract / _load closures
    last,       \* the outcome of the request or operation handled last
    hist,       \* history of the run, read only by the properties
    ctl         \* the bridge's lifecycle fields and the host's position

vars == <<inodes, paths, archive, work_dir, opens, pending, last, hist, ctl>>

(* The null pointer: no descriptor, no file, no buffer. *)
NULL == <<>>

(* fuse_lowlevel.h: the inode number of the mount's root directory. *)
FUSE_ROOT_ID == 1

FR_FUSE_INODE_START == FUSE_ROOT_ID + 1

(***************************************************************************)
(* Bounds of the model.                                                    *)
(***************************************************************************)
MaxInodes == 5      \* ff->inodes->len never grows past this
MaxOpen == 1        \* open handles the kernel holds at once while it reads
MaxOverlap == 2     \* open handles the kernel holds at once on one file
MaxPending == 1     \* reads in flight at once
MaxOff == 1         \* read offsets are 0 .. MaxOff
MaxSize == 2        \* read sizes are 1 .. MaxSize
MaxMounts == 2      \* loop threads created over the bridge's life
MaxDirOff == 4      \* readdir offsets are 0 .. MaxDirOff
MaxDirSize == 2     \* readdir sizes are 1 .. MaxDirSize

Min(a, b) == IF a < b THEN a ELSE b

(***************************************************************************)
(* The archive engine's side: the members an archive may list, and the     *)
(* descriptor (FrFileData) the engine builds for each.                     *)
(***************************************************************************)
PathA == <<"a.txt">>
PathD == <<"dir", "">>
PathB == <<"dir", "b.txt">>

Members == {PathA, PathD, PathB}

MemberOrder == <<PathA, PathD, PathB>>

IsDirMember(o) == o[Len(o)] = ""

Files == {o \in Members : ~IsDirMember(o)}

(* What the archive holds of a member: its bytes (none for a directory). *)
Blob(bytes) == [bytes |-> bytes]

MemberContents(o) ==
    IF IsDirMember(o) THEN {Blob(<<>>)}
    ELSE IF o = PathA THEN {Blob(<<"x", "y">>), Blob(<<"z">>)}
    ELSE {Blob(<<"w">>)}

ArchiveStates ==
    {arc \in [Members -> UNION {MemberContents(o) : o \in Members} \cup {NULL}] :
        \A o \in Members : arc[o] = NULL \/ arc[o] \in MemberContents(o)}

(* The directory part of a member path, with its trailing slash. *)
DirName(o) ==
    LET n == IF IsDirMember(o) THEN Len(o) - 2 ELSE Len(o) - 1
    IN  IF n = 0 THEN <<"/">> ELSE <<"/">> \o SubSeq(o, 1, n) \o <<"">>

BaseName(o) == IF IsDirMember(o) THEN o[Len(o) - 1] ELSE o[Len(o)]

IsUnder(o, d) ==
    /\ IsDirMember(d)
    /\ Len(o) >= Len(d)
    /\ o # d
    /\ SubSeq(o, 1, Len(d) - 1) = SubSeq(d, 1, Len(d) - 1)

RECURSIVE SumSizes(_, _)
SumSizes(arc, S) ==
    IF S = {} THEN 0
    ELSE LET o == CHOOSE x \in S : TRUE
         IN  (IF arc[o] = NULL THEN 0 ELSE Len(arc[o].bytes)) + SumSizes(arc, S \ {o})

(* The FrFileData the engine lists for member o of archive state arc. *)
FrFileData(arc, o) ==
    [ original_path |-> o,
      full_path     |-> <<"/">> \o o,
      path          |-> DirName(o),
      name          |-> BaseName(o),
      dir           |-> IsDirMember(o),
      size          |-> IF IsDirMember(o) THEN 0 ELSE Len(arc[o].bytes),
      dir_size      |-> IF IsDirMember(o)
                        THEN SumSizes(arc, {f \in Files : IsUnder(f, o)})
                        ELSE 0 ]

RECURSIVE ListFrom(_, _)
ListFrom(arc, k) ==
    IF k > Len(MemberOrder) THEN <<>>
    ELSE (IF arc[MemberOrder[k]] = NULL THEN <<>>
          ELSE <<FrFileData(arc, MemberOrder[k])>>) \o ListFrom(arc, k + 1)

(* ff->archive->files: the current listing. *)
ArchiveFiles(arc) == ListFrom(arc, 1)

(* g_hash_table_contains (ff->archive->files_hash, original_path) *)
FilesHashContains(arc, original_path) ==
    original_path \in Members /\ arc[original_path] # NULL

AllFileData ==
    UNION {{FrFileData(arc, o) : arc \in {a \in ArchiveStates : a[o] # NULL}} : o \in Members}

(***************************************************************************)
(* The inode table: a table t is [inodes, paths].                          *)
(***************************************************************************)
Table == [inodes |-> inodes, paths |-> paths]

Slot(t, ino) == t.inodes[ino + 1]

HashReplace(h, key, val) ==
    [k \in DOMAIN h \cup {key} |-> IF k = key THEN val ELSE h[k]]

HashRemove(h, key) == [k \in DOMAIN h \ {key} |-> h[k]]

HashContains(h, key) == key \in DOMAIN h

EmptyHash == [k \in {} |-> NULL]

fr_fuse_create_inode(t, src) ==
    [ inodes |-> Append(t.inodes, src),
      paths  |-> IF src # NULL
                 THEN HashReplace(t.paths, src.full_path, Len(t.inodes))
                 ELSE t.paths ]

(* A delete that takes the slot out of the array (g_ptr_array_remove_index). *)
delete_inode_removing(t, ino) ==
    IF ino <= FUSE_ROOT_ID \/ ino >= Len(t.inodes) THEN t
    ELSE IF Slot(t, ino) = NULL THEN t
    ELSE [ inodes |-> SubSeq(t.inodes, 1, ino) \o SubSeq(t.inodes, ino + 2, Len(t.inodes)),
           paths  |-> HashRemove(t.paths, Slot(t, ino).full_path) ]

fr_fuse_delete_inode(t, ino) ==
    IF ino <= FUSE_ROOT_ID \/ ino >= Len(t.inodes) THEN t
    ELSE IF Slot(t, ino) = NULL THEN t
    ELSE [ inodes |-> [t.inodes EXCEPT ![ino + 1] = NULL],
           paths  |-> HashRemove(t.paths, Slot(t, ino).full_path) ]

fr_fuse_get_file_by_ino(t, ino) ==
    IF ino <= FUSE_ROOT_ID \/ ino >= Len(t.inodes) THEN NULL
    ELSE Slot(t, ino)

(* A deletion pass that looks the listing up by full_path, not original_path. *)
RECURSIVE DeletePassByFullPath(_, _, _)
DeletePassByFullPath(t, arc, i) ==
    IF i >= Len(t.inodes) THEN t
    ELSE IF Slot(t, i) = NULL THEN DeletePassByFullPath(t, arc, i + 1)
    ELSE IF ~FilesHashContains(arc, Slot(t, i).full_path)
         THEN DeletePassByFullPath(fr_fuse_delete_inode(t, i), arc, i + 1)
         ELSE DeletePassByFullPath(t, arc, i + 1)

RECURSIVE DeletePass(_, _, _)
DeletePass(t, arc, i) ==
    IF i >= Len(t.inodes) THEN t
    ELSE IF Slot(t, i) = NULL THEN DeletePass(t, arc, i + 1)
    ELSE IF ~FilesHashContains(arc, Slot(t, i).original_path)
         THEN DeletePass(fr_fuse_delete_inode(t, i), arc, i + 1)
         ELSE DeletePass(t, arc, i + 1)

(* An insertion pass that looks the map up by original_path, not full_path. *)
RECURSIVE InsertPassByOriginalPath(_, _, _)
InsertPassByOriginalPath(t, files, k) ==
    IF k > Len(files) THEN t
    ELSE IF ~HashContains(t.paths, files[k].original_path)
         THEN InsertPassByOriginalPath(fr_fuse_create_inode(t, files[k]), files, k + 1)
         ELSE InsertPassByOriginalPath(t, files, k + 1)

RECURSIVE InsertPass(_, _, _)
InsertPass(t, files, k) ==
    IF k > Len(files) THEN t
    ELSE IF ~HashContains(t.paths, files[k].full_path)
         THEN InsertPass(fr_fuse_create_inode(t, files[k]), files, k + 1)
         ELSE InsertPass(t, files, k + 1)

fr_fuse_update_inodes(t, arc) ==
    InsertPass(DeletePass(t, arc, FR_FUSE_INODE_START), ArchiveFiles(arc), 1)

(***************************************************************************)
(* g_canonicalize_filename (path, "/") on an absolute path: "." and empty  *)
(* components go, ".." takes the component before it, and so does the      *)
(* trailing slash.                                                         *)
(***************************************************************************)
RECURSIVE CanonFrom(_, _)
CanonFrom(rest, acc) ==
    IF rest = <<>> THEN acc
    ELSE IF Head(rest) \in {"", ".", "/"} THEN CanonFrom(Tail(rest), acc)
    ELSE IF Head(rest) = ".."
         THEN CanonFrom(Tail(rest),
                        IF acc = <<>> THEN acc ELSE SubSeq(acc, 1, Len(acc) - 1))
         ELSE CanonFrom(Tail(rest), Append(acc, Head(rest)))

Canonicalize(p) == <<"/">> \o CanonFrom(p, <<>>)

RootPath == <<"/">>

EntrySize(fdata) == IF fdata.dir THEN fdata.dir_size ELSE fdata.size

(* A root size that adds every live slot, whatever its parent. *)
RECURSIVE root_size_of_every_slot(_, _)
root_size_of_every_slot(t, i) ==
    IF i >= Len(t.inodes) THEN 0
    ELSE (IF Slot(t, i) # NULL THEN EntrySize(Slot(t, i)) ELSE 0)
         + root_size_of_every_slot(t, i + 1)

RECURSIVE RootSizeFrom(_, _)
RootSizeFrom(t, i) ==
    IF i >= Len(t.inodes) THEN 0
    ELSE (IF Slot(t, i) # NULL /\ Canonicalize(Slot(t, i).path) = RootPath
          THEN EntrySize(Slot(t, i)) ELSE 0) + RootSizeFrom(t, i + 1)

fr_fuse_get_size_by_ino(t, ino) ==
    IF ino # FUSE_ROOT_ID
    THEN LET fdata == fr_fuse_get_file_by_ino(t, ino)
         IN  IF fdata = NULL THEN 0 ELSE EntrySize(fdata)
    ELSE RootSizeFrom(t, FR_FUSE_INODE_START)

(* A reply that compares the offset with the last index, not the size. *)
reply_buf_limited_off_by_one(buf, off, maxsize) ==
    IF off < Len(buf) - 1
    THEN SubSeq(buf, off + 1, off + Min(Len(buf) - off, maxsize))
    ELSE <<>>

(* The bytes fuse_reply_buf is given: buf + off, MIN (bufsize - off, maxsize). *)
fr_fuse_reply_buf_limited(buf, off, maxsize) ==
    IF off < Len(buf)
    THEN SubSeq(buf, off + 1, off + Min(Len(buf) - off, maxsize))
    ELSE <<>>

(* The inodes, in table order, of the live slots whose parent is dir_path. *)
RECURSIVE ChildrenFrom(_, _, _)
ChildrenFrom(t, dir_path, i) ==
    IF i >= Len(t.inodes) THEN <<>>
    ELSE (IF Slot(t, i) # NULL /\ Canonicalize(Slot(t, i).path) = dir_path
          THEN <<i>> ELSE <<>>) \o ChildrenFrom(t, dir_path, i + 1)

(* A scan that starts one slot late. *)
children_skipping_first(t, dir_path) == ChildrenFrom(t, dir_path, FR_FUSE_INODE_START + 1)

Children(t, dir_path) == ChildrenFrom(t, dir_path, FR_FUSE_INODE_START)

SelectNamed(t, inos, name) == SelectSeq(inos, LAMBDA i : Slot(t, i).name = name)

(* fuse_add_direntry: the cells of one directory entry, its header (the    *)
(* inode number and the offset of the next entry) and its padded name.     *)
Dirent(name, ino, off) == <<[d_ino |-> ino, d_off |-> off], [d_name |-> name]>>

(* _fr_fuse_dirbuf_add: the buffer grown by the entry's size, the entry    *)
(* written at the old end with the new size as its offset.                 *)
fr_fuse_dirbuf_add(b, name, ino) ==
    LET size == Len(b) + Len(Dirent(name, ino, 0))
    IN  b \o Dirent(name, ino, size)

(* The directory buffer of the entries inos, added in that order. *)
RECURSIVE DirBufOf(_, _, _)
DirBufOf(t, inos, b) ==
    IF inos = <<>> THEN b
    ELSE DirBufOf(t, Tail(inos), fr_fuse_dirbuf_add(b, Slot(t, Head(inos)).name, Head(inos)))

DirBuf(t, inos) == DirBufOf(t, inos, <<>>)

Mode(is_dir) == IF is_dir THEN "S_IFDIR" ELSE "S_IFREG"

(***************************************************************************)
(* The outcome of one handled request or operation.                        *)
(***************************************************************************)
(* op: the handler; ino: its inode argument; err: "ok" for a success reply, *)
(* the errno of an error reply, "pending" while the reply is left to a     *)
(* callback, "none" when the handler returned without replying; replies:   *)
(* how many times the request was answered; data: what the reply carried.  *)
(* For a read, off and size are the request's and buf is what was loaded;  *)
(* fresh is history: the member's content when the read was issued, for a  *)
(* read that follows a release, an archive update and an open.             *)
ReadOutcome(ino, err, replies, data, off, size, buf, fresh) ==
    [op |-> "read", ino |-> ino, err |-> err, replies |-> replies, data |-> data,
     off |-> off, size |-> size, buf |-> buf, fresh |-> fresh]

Outcome(op, ino, err, replies, data) ==
    [op |-> op, ino |-> ino, err |-> err, replies |-> replies, data |-> data,
     off |-> 0, size |-> 0, buf |-> NULL, fresh |-> NULL]

NoOutcome == Outcome("none", 0, "none", 0, <<>>)

Entry(t, ino, is_dir) ==
    [ino |-> ino, mode |-> Mode(is_dir), size |-> fr_fuse_get_size_by_ino(t, ino)]

(***************************************************************************)
(* The handlers' decisions, as functions of the table and the request.     *)
(***************************************************************************)
fr_fuse_lookup(t, parent, name) ==
    LET dir == fr_fuse_get_file_by_ino(t, parent)
        path == IF parent = FUSE_ROOT_ID THEN RootPath
                ELSE Canonicalize(dir.full_path)
        found == SelectNamed(t, Children(t, path), name)
    IN  IF parent # FUSE_ROOT_ID /\ dir = NULL
        THEN Outcome("lookup", parent, "ENOTDIR", 1, <<name>>)
        ELSE IF name = "."
        THEN Outcome("lookup", parent, "ok", 1, <<name, Entry(t, FUSE_ROOT_ID, TRUE)>>)
        ELSE IF found # <<>>
        THEN Outcome("lookup", parent, "ok", 1,
                     <<name, Entry(t, found[1], Slot(t, found[1]).dir)>>)
        ELSE Outcome("lookup", parent, "ENOENT", 1, <<name>>)

fr_fuse_getattr(t, ino) ==
    LET fdata == fr_fuse_get_file_by_ino(t, ino)
    IN  IF ino # FUSE_ROOT_ID /\ fdata = NULL
        THEN Outcome("getattr", ino, "ENOENT", 1, <<>>)
        ELSE Outcome("getattr", ino, "ok", 1,
                     <<Entry(t, ino, IF ino = FUSE_ROOT_ID THEN TRUE ELSE fdata.dir)>>)

fr_fuse_readdir(t, ino, size, off) ==
    LET dir == fr_fuse_get_file_by_ino(t, ino)
        dir_path == IF ino = FUSE_ROOT_ID THEN RootPath
                    ELSE Canonicalize(dir.full_path)
    IN  IF ino # FUSE_ROOT_ID /\ dir = NULL
        THEN [Outcome("readdir", ino, "ENOTDIR", 1, <<>>) EXCEPT !.off = off, !.size = size]
        ELSE [Outcome("readdir", ino, "ok", 1,
                      fr_fuse_reply_buf_limited(DirBuf(t, Children(t, dir_path)), off, size))
              EXCEPT !.off = off, !.size = size]

(* fi->flags: the access mode, and whether O_APPEND is set.  The outcome   *)
(* of an accepted open carries the flags it was given.                     *)
OpenFlags == [acc : {"O_RDONLY", "O_WRONLY", "O_RDWR"}, append : BOOLEAN]

fr_fuse_open(t, ino, flags) ==
    LET fdata == fr_fuse_get_file_by_ino(t, ino)
        fi == <<flags.acc, IF flags.append THEN "O_APPEND" ELSE "">>
    IN  IF ino = FUSE_ROOT_ID THEN Outcome("open", ino, "EISDIR", 1, <<>>)
        ELSE IF flags.acc # "O_RDONLY" THEN Outcome("open", ino, "EACCES", 1, <<>>)
        ELSE IF fdata = NULL THEN Outcome("open", ino, "ENOENT", 1, <<>>)
        ELSE IF fdata.dir THEN Outcome("open", ino, "EISDIR", 1, <<>>)
        ELSE Outcome("open", ino, "ok", 1, fi \o <<"direct_io">>)

(* What _fr_fuse_read answers at once; "pending" when it starts extraction. *)
fr_fuse_read(t, ino, size, off) ==
    LET fdata == fr_fuse_get_file_by_ino(t, ino)
    IN  IF ino = FUSE_ROOT_ID
        THEN ReadOutcome(ino, "EISDIR", 1, <<>>, off, size, NULL, NULL)
        ELSE IF fdata = NULL
        THEN ReadOutcome(ino, "ENOENT", 1, <<>>, off, size, NULL, NULL)
        ELSE IF fdata.dir
        THEN ReadOutcome(ino, "EISDIR", 1, <<>>, off, size, NULL, NULL)
        ELSE ReadOutcome(ino, "pending", 0, <<>>, off, size, NULL, NULL)

(* The _extract closure, and the overwrite argument of fr_archive_extract. *)
ExtractData(fdata, ino, size, off, fresh) ==
    [ino |-> ino, original_path |-> fdata.original_path, off |-> off, size |-> size,
     overwrite |-> FALSE, stage |-> "extract", fresh |-> fresh]

(* The archive engine's extraction of member o into the work directory wd. *)
ArchiveExtract(arc, wd, o, overwrite) ==
    IF arc[o] = NULL THEN [wd |-> wd, wrote |-> FALSE, error |-> TRUE]
    ELSE IF wd[o] # NULL /\ ~overwrite THEN [wd |-> wd, wrote |-> FALSE, error |-> FALSE]
    ELSE [wd |-> [wd EXCEPT ![o] = arc[o]], wrote |-> TRUE, error |-> FALSE]

(* g_set_error: sets *err only when it is NULL (else warns and drops).     *)
SetError(err, kind) == IF err = "none" THEN kind ELSE err

(* fr_archive_operation_finish (archive, result, &ff->error): what the     *)
(* last-error slot holds afterwards.                                       *)
fr_archive_operation_finish(err, failed) == IF failed THEN "EXTRACT" ELSE err

(* g_file_load_contents_finish (..., &ff->error) and g_file_delete (...,   *)
(* &ff->error): a failure is stored as g_set_error and g_propagate_error   *)
(* store it.                                                               *)
g_file_load_contents_finish(err, failed) == IF failed THEN SetError(err, "LOAD") ELSE err

g_file_delete(err, failed) == IF failed THEN SetError(err, "DELETE") ELSE err

(* _fr_fuse_on_extracted: the closure handed to g_file_load_contents_async. *)
fr_fuse_on_extracted(edata) == [edata EXCEPT !.stage = "load"]

(* _fr_fuse_on_loaded: the reply, from what g_file_load_contents_finish gave. *)
fr_fuse_on_loaded(ldata, file) ==
    LET buffer == IF file = NULL THEN <<>> ELSE file.bytes
    IN  ReadOutcome(ldata.ino, IF file = NULL THEN "EIO-load" ELSE "ok", 1,
                    fr_fuse_reply_buf_limited(buffer, ldata.off, ldata.size),
                    ldata.off, ldata.size, buffer, ldata.fresh)

(* _fr_fuse_release: the outcome and the work directory it leaves. *)
(* delete_ok: g_file_delete succeeds.                                     *)
fr_fuse_release(t, wd, ino, delete_ok) ==
    LET fdata == fr_fuse_get_file_by_ino(t, ino)
    IN  IF fdata = NULL
        THEN [out |-> Outcome("release", ino, "ENOENT", 1, <<>>), wd |-> wd,
              failed |-> FALSE]
        ELSE IF fdata.dir
        THEN [out |-> Outcome("release", ino, "EISDIR", 1, <<>>), wd |-> wd,
              failed |-> FALSE]
        ELSE IF wd[fdata.original_path] # NULL
        THEN IF delete_ok
             THEN [out |-> Outcome("release", ino, "none", 0, <<"g_file_delete">>),
                   wd |-> [wd EXCEPT ![fdata.original_path] = NULL], failed |-> FALSE]
             ELSE [out |-> Outcome("release", ino, "none", 0, <<"g_file_delete", "failed">>),
                   wd |-> wd, failed |-> TRUE]
        ELSE [out |-> Outcome("release", ino, "none", 0, <<>>), wd |-> wd,
              failed |-> FALSE]

(***************************************************************************)
(* The member each slot of a table was created for (NULL for a slot        *)
(* created empty).                                                         *)
(***************************************************************************)
RECURSIVE BornOf(_)
BornOf(slots) ==
    IF slots = <<>> THEN <<>>
    ELSE <<IF Head(slots) = NULL THEN NULL ELSE Head(slots).original_path>>
         \o BornOf(Tail(slots))

(* The members of the slots appended to born by a step to table t. *)
Grown(born, t) == born \o BornOf(SubSeq(t.inodes, Len(born) + 1, Len(t.inodes)))

(***************************************************************************)
(* The state after fr_fuse_mount: the two reserved slots, 0 and the root.  *)
(***************************************************************************)
MountedTable == fr_fuse_create_inode(
                    fr_fuse_create_inode([inodes |-> <<>>, paths |-> EmptyHash], NULL),
                    NULL)

EmptyArchive == [o \in Members |-> NULL]

(***************************************************************************)
(* The lifecycle of the bridge.  ctl holds                                 *)
(*   obj      "none" before g_object_new, "live", "freed" after the last   *)
(*            unref                                                        *)
(*   started  ff->started                                                  *)
(*   fuse     ff->fuse: "null", "new" (a session, not mounted), "mounted", *)
(*            "destroyed"                                                  *)
(*   exited   fuse_session_exit was called and no loop has returned since  *)
(*   threads  the loop threads created and not yet returned                *)
(*   joins    the g_thread_join calls made                                 *)
(*   mounts   the loop threads created so far                              *)
(*   dirs     the two temporary directories exist                          *)
(*   error    ff->error: "none" (NULL), the kind of the GError it points   *)
(*            to, or "dangling" once that GError was freed                 *)
(*   pass     where the host is in fr_fuse_update_inodes                   *)
(***************************************************************************)
IdlePass == [phase |-> "idle", i |-> 0, start |-> NULL]

NoBridge ==
    [obj |-> "none", started |-> FALSE, fuse |-> "null", exited |-> FALSE,
     threads |-> 0, joins |-> 0, mounts |-> 0, dirs |-> FALSE, error |-> "none",
     pass |-> IdlePass, req |-> NULL]

NullTable == [inodes |-> <<>>, paths |-> EmptyHash]

(* g_propagate_error (dest, src): what ff->error is afterwards.  With dest *)
(* = &ff->error the source is freed as "overwritten" and ff->error is left *)
(* pointing at it; with the caller's dest ff->error keeps its value.       *)
Propagated(err, own) == IF own /\ err # "none" THEN "dangling" ELSE err

(* A mount that skips the test of ff->started. *)
mount_without_started_test(c, t, kernel_ok, thread_ok, own) ==
    IF ~kernel_ok
    THEN [c |-> [c EXCEPT !.error = Propagated(SetError(@, "FUSE_MOUNT"), own)],
          t |-> t, reported |-> SetError(c.error, "FUSE_MOUNT"), did |-> <<"fuse_session_mount">>]
    ELSE [c |-> [c EXCEPT !.fuse = "mounted", !.threads = @ + 1, !.mounts = @ + 1,
                          !.started = TRUE],
          t |-> MountedTable, reported |-> "none",
          did |-> <<"fuse_session_mount", "g_thread_try_new", "inodes", "started">>]

(* fr_fuse_mount (ff, error): the fields and the table it leaves, the kind *)
(* of the error handed to the caller and the effects in program order.     *)
(* kernel_ok: fuse_session_mount succeeds; thread_ok: g_thread_try_new     *)
(* succeeds; own: error is &ff->error, as in fr_fuse_init.                 *)
fr_fuse_mount(c, t, kernel_ok, thread_ok, own) ==
    IF c.started THEN [c |-> c, t |-> t, reported |-> "none", did |-> <<>>]
    ELSE IF ~kernel_ok
    THEN [c |-> [c EXCEPT !.error = Propagated(SetError(@, "FUSE_MOUNT"), own)],
          t |-> t, reported |-> SetError(c.error, "FUSE_MOUNT"),
          did |-> <<"fuse_session_mount">>]
    ELSE LET thread_error == IF thread_ok THEN c.error ELSE SetError(c.error, "THREAD")
         IN  IF thread_error # "none"
             THEN [c |-> [c EXCEPT !.fuse = "mounted",
                                   !.threads = IF thread_ok THEN @ + 1 ELSE @,
                                   !.mounts = IF thread_ok THEN @ + 1 ELSE @,
                                   !.error = Propagated(thread_error, own)],
                   t |-> t, reported |-> thread_error,
                   did |-> <<"fuse_session_mount", "g_thread_try_new">>]
             ELSE [c |-> [c EXCEPT !.fuse = "mounted", !.threads = @ + 1,
                                   !.mounts = @ + 1, !.started = TRUE],
                   t |-> MountedTable, reported |-> "none",
                   did |-> <<"fuse_session_mount", "g_thread_try_new", "inodes",
                             "started">>]

(* An unmount that skips the test of ff->started. *)
unmount_without_started_test(c, t) ==
    [c |-> [c EXCEPT !.started = FALSE, !.fuse = "new", !.exited = TRUE],
     t |-> NullTable,
     did |-> <<"started", "fuse_session_unmount", "fuse_session_exit", "inodes",
               "paths">>]

(* fr_fuse_unmount (ff). *)
fr_fuse_unmount(c, t) ==
    IF c.started
    THEN [c |-> [c EXCEPT !.started = FALSE, !.fuse = "new", !.exited = TRUE],
          t |-> NullTable,
          did |-> <<"started", "fuse_session_unmount", "fuse_session_exit", "inodes",
                    "paths">>]
    ELSE [c |-> c, t |-> t, did |-> <<>>]

(* fr_fuse_get_mount_dir (ff). *)
fr_fuse_get_mount_dir(c) == IF ~c.started THEN NULL ELSE <<"mount_dir">>

(* The last unref: fr_fuse_dispose, then fr_fuse_finalize. *)
fr_fuse_dispose(c, t) ==
    LET u == fr_fuse_unmount(c, t)
    IN  [c |-> [u.c EXCEPT !.dirs = FALSE, !.fuse = IF @ = "null" THEN @ ELSE "destroyed",
                           !.obj = "freed"],
         t |-> u.t,
         did |-> u.did \o <<"remove mount_dir", "remove work_dir", "archive",
                            "fuse_session_destroy">>]

(* fr_fuse_init: the fields zeroed, the session made, the directories made, *)
(* the mount.  session_ok: fuse_session_new succeeds.                       *)
fr_fuse_init(session_ok, kernel_ok, thread_ok) ==
    IF ~session_ok
    THEN [c |-> [NoBridge EXCEPT !.obj = "live", !.error = "FUSE_NEW"], t |-> NullTable,
          reported |-> "FUSE_NEW"]
    ELSE LET m == fr_fuse_mount([NoBridge EXCEPT !.obj = "live", !.fuse = "new",
                                                 !.dirs = TRUE],
                                NullTable, kernel_ok, thread_ok, TRUE)
         IN  [c |-> m.c, t |-> m.t, reported |-> m.reported]

(* fr_fuse_new: the bridge it leaves and what the caller gets.  When        *)
(* ff->error is set the object is unreferenced and the error is then read   *)
(* from it: the caller sees the kind that was set or whatever the freed     *)
(* memory holds by then.                                                    *)
fr_fuse_new(session_ok, kernel_ok, thread_ok, intact) ==
    LET i == fr_fuse_init(session_ok, kernel_ok, thread_ok)
        d == fr_fuse_dispose(i.c, i.t)
    IN  IF i.c.error # "none"
        THEN [c |-> d.c, t |-> d.t, returned |-> NULL,
              reported |-> IF intact THEN i.reported ELSE "garbage"]
        ELSE [c |-> i.c, t |-> i.t, returned |-> <<"ff">>, reported |-> "none"]

(* The bridge fr_fuse_new returns when nothing fails. *)
Constructed == fr_fuse_new(TRUE, TRUE, TRUE, TRUE)

(***************************************************************************)
(* History, read only by the properties.                                   *)
(*   born[i + 1]  the member inode i was created for, NULL for a slot      *)
(*                created empty                                            *)
(*   rd[i + 1]    is: a read of inode i has started an extraction; and,    *)
(*                since the last release of inode i: ok, the reads of it   *)
(*                answered from a loaded copy; wr, the extractions its     *)
(*                reads caused that wrote the copy (both stop at 2)        *)
(*   rel[o]       "released" once the last open handle of member o is      *)
(*                released, then "changed" once the archive holds new      *)
(*                content of o, then "reopened" once o is opened again,    *)
(*                until the next read of o is issued                       *)
(***************************************************************************)
NoReads == [is |-> FALSE, ok |-> 0, wr |-> 0]

InitHist ==
    [ born |-> <<NULL, NULL>>,
      rd   |-> <<NoReads, NoReads>>,
      rel  |-> [o \in Files |-> "none"] ]

Init ==
    /\ ctl = Constructed.c
    /\ inodes = Constructed.t.inodes
    /\ paths = Constructed.t.paths
    /\ archive = EmptyArchive
    /\ work_dir = [o \in Files |-> NULL]
    /\ opens = <<0, 0>>
    /\ pending = <<>>
    /\ last = NoOutcome
    /\ hist = InitHist

(* A per-inode sequence grows with the inode table. *)
GrowTo(seq, t, default) == seq \o [i \in 1..(Len(t.inodes) - Len(seq)) |-> default]

Bump(n) == IF n < 2 THEN n + 1 ELSE n

(***************************************************************************)
(* The host changes the archive: one member is added, removed or rewritten.*)
(***************************************************************************)
ArchiveUpdate(M) ==
    \E o \in M : \E c \in MemberContents(o) \cup {NULL} :
        /\ c # archive[o]
        /\ archive' = [archive EXCEPT ![o] = c]
        /\ pending' = [k \in 1..Len(pending) |->
                          IF pending[k].original_path = o
                          THEN [pending[k] EXCEPT !.fresh = NULL] ELSE pending[k]]
        /\ hist' = IF o \in Files /\ c # NULL /\ hist.rel[o] = "released"
                   THEN [hist EXCEPT !.rel[o] = "changed"] ELSE hist
        /\ last' = Outcome("archive", 0, "none", 0, <<>>)
        /\ UNCHANGED <<inodes, paths, work_dir, opens, ctl>>

(* The calls of _fr_fuse_create_inode and of _fr_fuse_delete_inode on a live *)
(* slot that take table t to table u.                                       *)
Creates(t, u) == Len(u.inodes) - Len(t.inodes)

Deletes(t, u) ==
    Cardinality({i \in 1..Len(t.inodes) : t.inodes[i] # NULL /\ u.inodes[i] = NULL})

(* fr_fuse_update_inodes, called by the host: the outcome says whether the   *)
(* call follows another with nothing in between, and what it did.           *)
UpdateInodes ==
    LET t == fr_fuse_update_inodes(Table, archive)
    IN  /\ ctl.obj = "live" /\ ctl.started /\ ctl.pass.phase = "idle"
        /\ Len(t.inodes) <= MaxInodes
        /\ inodes' = t.inodes
        /\ paths' = t.paths
        /\ opens' = GrowTo(opens, t, 0)
        /\ hist' = [hist EXCEPT !.born = Grown(hist.born, t),
                                !.rd = GrowTo(hist.rd, t, NoReads)]
        /\ last' = Outcome("update", 0, "none", 0,
                           <<IF last.op = "update" THEN "again" ELSE "first",
                             Creates(Table, t), Deletes(Table, t),
                             IF t = Table THEN "same" ELSE "changed">>)
        /\ UNCHANGED <<archive, work_dir, pending, ctl>>

(***************************************************************************)
(* The kernel's requests.  The kernel names the inodes it has been told of *)
(* and may still name one that has since been deleted; it reads and        *)
(* releases only through a handle it holds, and releases a handle only     *)
(* when no read through that handle is outstanding.                        *)
(***************************************************************************)
KernelInodes == 1..Len(inodes)

LookupNames == {"a.txt", "dir", "b.txt", "."}

RECURSIVE SumSeq(_)
SumSeq(seq) == IF seq = <<>> THEN 0 ELSE Head(seq) + SumSeq(Tail(seq))

OpenInodes == {i \in 0..(Len(opens) - 1) : opens[i + 1] > 0}

PendingOn(ino) == {k \in 1..Len(pending) : pending[k].ino = ino}

(* The open handles on inodes created for member o, counted in op. *)
HandlesOf(op, o) ==
    SumSeq([i \in 1..Len(op) |-> IF hist.born[i] = o THEN op[i] ELSE 0])

Lookup ==
    \E parent \in KernelInodes, name \in LookupNames :
        /\ last' = fr_fuse_lookup(Table, parent, name)
        /\ UNCHANGED <<inodes, paths, archive, work_dir, opens, pending, hist, ctl>>

Getattr ==
    \E ino \in KernelInodes :
        /\ last' = fr_fuse_getattr(Table, ino)
        /\ UNCHANGED <<inodes, paths, archive, work_dir, opens, pending, hist, ctl>>

Readdir ==
    \E ino \in KernelInodes, size \in 1..MaxDirSize, off \in 0..MaxDirOff :
        /\ last' = fr_fuse_readdir(Table, ino, size, off)
        /\ UNCHANGED <<inodes, paths, archive, work_dir, opens, pending, hist, ctl>>

OpenUpTo(n) ==
    \E ino \in KernelInodes, flags \in OpenFlags :
        LET out == fr_fuse_open(Table, ino, flags)
            o == hist.born[ino + 1]
        IN  /\ SumSeq(opens) < n
            /\ last' = out
            /\ IF out.err = "ok"
               THEN /\ opens' = [opens EXCEPT ![ino + 1] = @ + 1]
                    /\ hist' = [hist EXCEPT !.rel[o] =
                                   IF @ = "changed" THEN "reopened"
                                   ELSE IF @ = "released" THEN "none" ELSE @]
               ELSE UNCHANGED <<opens, hist>>
            /\ UNCHANGED <<inodes, paths, archive, work_dir, pending, ctl>>

Open == OpenUpTo(MaxOpen)

Read ==
    \E ino \in OpenInodes, size \in 1..MaxSize, off \in 0..MaxOff :
        LET out == fr_fuse_read(Table, ino, size, off)
            fdata == fr_fuse_get_file_by_ino(Table, ino)
            o == fdata.original_path
            fresh == IF hist.rel[o] = "reopened" THEN archive[o] ELSE NULL
        IN  /\ Len(pending) < MaxPending
            /\ last' = out
            /\ IF out.err = "pending"
               THEN /\ pending' = Append(pending, ExtractData(fdata, ino, size, off, fresh))
                    /\ hist' = [hist EXCEPT !.rd[ino + 1].is = TRUE,
                                            !.rel[o] = IF @ = "reopened" THEN "none" ELSE @]
               ELSE UNCHANGED <<pending, hist>>
            /\ UNCHANGED <<inodes, paths, archive, work_dir, opens, ctl>>

(* The extraction fr_archive_extract started completes: _fr_fuse_on_extracted. *)
ExtractDone ==
    \E k \in 1..Len(pending) :
        LET edata == pending[k]
            r == ArchiveExtract(archive, work_dir, edata.original_path, edata.overwrite)
        IN  /\ edata.stage = "extract"
            /\ work_dir' = r.wd
            /\ pending' = [pending EXCEPT ![k] = fr_fuse_on_extracted(edata)]
            /\ hist' = IF r.wrote
                       THEN [hist EXCEPT !.rd[edata.ino + 1].wr = Bump(@)]
                       ELSE hist
            /\ ctl' = [ctl EXCEPT !.error = fr_archive_operation_finish(@, r.error)]
            /\ last' = Outcome("extracted", edata.ino, "none", 0,
                               IF r.error THEN <<"failed">> ELSE <<>>)
            /\ UNCHANGED <<inodes, paths, archive, opens>>

(* The load g_file_load_contents_async started completes: _fr_fuse_on_loaded. *)
LoadDone ==
    \E k \in 1..Len(pending) :
        LET ldata == pending[k]
            file == work_dir[ldata.original_path]
        IN  /\ ldata.stage = "load"
            /\ last' = fr_fuse_on_loaded(ldata, file)
            /\ pending' = SubSeq(pending, 1, k - 1) \o SubSeq(pending, k + 1, Len(pending))
            /\ hist' = IF file # NULL
                       THEN [hist EXCEPT !.rd[ldata.ino + 1].ok = Bump(@)]
                       ELSE hist
            /\ ctl' = [ctl EXCEPT !.error = g_file_load_contents_finish(@, file = NULL)]
            /\ UNCHANGED <<inodes, paths, archive, work_dir, opens>>

ReleaseWith(DeleteOk) ==
    \E ino \in OpenInodes, delete_ok \in DeleteOk :
        LET r == fr_fuse_release(Table, work_dir, ino, delete_ok)
            o == hist.born[ino + 1]
            left == [opens EXCEPT ![ino + 1] = @ - 1]
        IN  /\ opens[ino + 1] >= 2 \/ PendingOn(ino) = {}
            /\ last' = r.out
            /\ work_dir' = r.wd
            /\ opens' = left
            /\ hist' = [hist EXCEPT !.rd[ino + 1] = [NoReads EXCEPT !.is = hist.rd[ino + 1].is],
                                    !.rel[o] = IF HandlesOf(left, o) = 0
                                               THEN "released" ELSE @]
            /\ ctl' = [ctl EXCEPT !.error = g_file_delete(@, r.failed)]
            /\ UNCHANGED <<inodes, paths, archive, pending>>

(* The work directory is the bridge's own: g_file_delete of a file that    *)
(* exists in it succeeds.                                                  *)
Release == ReleaseWith({TRUE})

(***************************************************************************)
(* The bridge serving reads: the host rewrites, removes and adds the file  *)
(* member a.txt and reconciles, the kernel opens, reads and releases.      *)
(***************************************************************************)
ReadMembers == {PathA}

NextRead ==
    \/ ArchiveUpdate(ReadMembers)
    \/ UpdateInodes
    \/ Open
    \/ Read
    \/ ExtractDone
    \/ LoadDone
    \/ Release

SpecRead == Init /\ [][NextRead]_vars

(***************************************************************************)
(* The bridge serving two handles on one file: the archive holds a.txt,    *)
(* the table is reconciled with it and neither changes; the kernel opens,  *)
(* reads and releases.                                                     *)
(***************************************************************************)
InitOverlap ==
    \E c \in MemberContents(PathA) :
        LET arc == [EmptyArchive EXCEPT ![PathA] = c]
            t == fr_fuse_update_inodes(Constructed.t, arc)
        IN  /\ ctl = Constructed.c
            /\ inodes = t.inodes
            /\ paths = t.paths
            /\ archive = arc
            /\ work_dir = [o \in Files |-> NULL]
            /\ opens = GrowTo(<<0, 0>>, t, 0)
            /\ pending = <<>>
            /\ last = NoOutcome
            /\ hist = [InitHist EXCEPT !.born = Grown(InitHist.born, t),
                                       !.rd = GrowTo(InitHist.rd, t, NoReads)]

OverlapOpen == OpenUpTo(MaxOverlap)

(* A release whose g_file_delete may fail. *)
OverlapRelease == ReleaseWith(BOOLEAN)

NextOverlap ==
    \/ OverlapOpen
    \/ Read
    \/ ExtractDone
    \/ LoadDone
    \/ OverlapRelease

SpecOverlap == InitOverlap /\ [][NextOverlap]_vars

(***************************************************************************)
(* The bridge answering lookups and attribute queries over every listing   *)
(* of the members.                                                         *)
(***************************************************************************)
NextQuery ==
    \/ ArchiveUpdate(Members)
    \/ UpdateInodes
    \/ Lookup
    \/ Getattr

SpecQuery == Init /\ [][NextQuery]_vars

(***************************************************************************)
(* The bridge listing directories over every listing of the members.       *)
(***************************************************************************)
NextDir ==
    \/ ArchiveUpdate(Members)
    \/ UpdateInodes
    \/ Readdir

SpecDir == Init /\ [][NextDir]_vars

(***************************************************************************)
(* The host alone: the archive changes and the table is reconciled.        *)
(***************************************************************************)
NextHost == ArchiveUpdate(Members) \/ UpdateInodes

SpecHost == Init /\ [][NextHost]_vars

(***************************************************************************)
(* The inode table on its own: Create and Delete called in any order.      *)
(***************************************************************************)
TableCreate ==
    \E src \in AllFileData \cup {NULL} :
        LET t == fr_fuse_create_inode(Table, src)
        IN  /\ Len(inodes) < MaxInodes
            /\ inodes' = t.inodes
            /\ paths' = t.paths
            /\ opens' = GrowTo(opens, t, 0)
            /\ hist' = [hist EXCEPT !.born = Grown(hist.born, t),
                                    !.rd = GrowTo(hist.rd, t, NoReads)]
            /\ last' = Outcome("create", Len(inodes), "none", 0, <<>>)
            /\ UNCHANGED <<archive, work_dir, pending, ctl>>

TableDelete ==
    \E ino \in 0..Len(inodes) :
        LET t == fr_fuse_delete_inode(Table, ino)
        IN  /\ inodes' = t.inodes
            /\ paths' = t.paths
            /\ last' = Outcome("delete", ino, "none", 0, <<>>)
            /\ UNCHANGED <<archive, work_dir, opens, pending, hist, ctl>>

NextTable == TableCreate \/ TableDelete \/ UpdateInodes \/ ArchiveUpdate(Members)

SpecTable == Init /\ [][NextTable]_vars

(***************************************************************************)
(* The host's lifecycle calls.  The outcome of a call carries whether the  *)
(* bridge was started, what the environment answered and the effects of    *)
(* the call in program order.                                              *)
(***************************************************************************)
Word(b, yes, no) == IF b THEN yes ELSE no

InitLife ==
    /\ ctl = NoBridge
    /\ inodes = NullTable.inodes
    /\ paths = NullTable.paths
    /\ archive = EmptyArchive
    /\ work_dir = [o \in Files |-> NULL]
    /\ opens = <<>>
    /\ pending = <<>>
    /\ last = NoOutcome
    /\ hist = [InitHist EXCEPT !.born = <<>>, !.rd = <<>>]

New ==
    \E session_ok \in BOOLEAN, kernel_ok \in BOOLEAN, thread_ok \in BOOLEAN,
       intact \in BOOLEAN :
        LET n == fr_fuse_new(session_ok, kernel_ok, thread_ok, intact)
        IN  /\ ctl.obj = "none"
            /\ ctl' = n.c
            /\ inodes' = n.t.inodes
            /\ paths' = n.t.paths
            /\ opens' = [i \in 1..Len(n.t.inodes) |-> 0]
            /\ hist' = [hist EXCEPT !.born = BornOf(n.t.inodes),
                                    !.rd = [i \in 1..Len(n.t.inodes) |-> NoReads]]
            /\ last' = Outcome("new", 0, n.reported, 0,
                               <<"stopped", Word(session_ok, "session", "no session"),
                                 Word(kernel_ok, "mounted", "refused"),
                                 Word(thread_ok, "thread", "no thread"),
                                 Word(n.returned = NULL, "NULL", "ff")>>)
            /\ UNCHANGED <<archive, work_dir, pending>>

Mount ==
    \E kernel_ok \in BOOLEAN, thread_ok \in BOOLEAN :
        LET m == fr_fuse_mount(ctl, Table, kernel_ok, thread_ok, FALSE)
        IN  /\ ctl.obj = "live"
            /\ ctl.started \/ ctl.mounts < MaxMounts
            /\ ctl' = m.c
            /\ inodes' = m.t.inodes
            /\ paths' = m.t.paths
            /\ opens' = [i \in 1..Len(m.t.inodes) |-> 0]
            /\ hist' = [hist EXCEPT !.born = BornOf(m.t.inodes),
                                    !.rd = [i \in 1..Len(m.t.inodes) |-> NoReads]]
            /\ last' = Outcome("mount", 0, m.reported, 0,
                               <<Word(ctl.started, "started", "stopped"), "session",
                                 Word(kernel_ok, "mounted", "refused"),
                                 Word(thread_ok, "thread", "no thread"), m.did>>)
            /\ UNCHANGED <<archive, work_dir, pending>>

Unmount ==
    LET u == fr_fuse_unmount(ctl, Table)
    IN  /\ ctl.obj = "live"
        /\ ctl' = u.c
        /\ inodes' = u.t.inodes
        /\ paths' = u.t.paths
        /\ opens' = [i \in 1..Len(u.t.inodes) |-> 0]
        /\ hist' = [hist EXCEPT !.born = BornOf(u.t.inodes),
                                !.rd = [i \in 1..Len(u.t.inodes) |-> NoReads]]
        /\ last' = Outcome("unmount", 0, "none", 0,
                           <<Word(ctl.started, "started", "stopped"), u.did>>)
        /\ UNCHANGED <<archive, work_dir, pending>>

(* The host drops its reference, the last one. *)
Destroy ==
    LET d == fr_fuse_dispose(ctl, Table)
    IN  /\ ctl.obj = "live"
        /\ ctl' = d.c
        /\ inodes' = d.t.inodes
        /\ paths' = d.t.paths
        /\ work_dir' = [o \in Files |-> NULL]
        /\ opens' = [i \in 1..Len(d.t.inodes) |-> 0]
        /\ hist' = [hist EXCEPT !.born = BornOf(d.t.inodes),
                                !.rd = [i \in 1..Len(d.t.inodes) |-> NoReads]]
        /\ last' = Outcome("destroy", 0, "none", 0,
                           <<Word(ctl.started, "started", "stopped"), d.did>>)
        /\ UNCHANGED <<archive, pending>>

(* _fr_fuse_run_loop returns: fuse_session_loop saw the exit flag, and     *)
(* resets it on its way out.                                               *)
ThreadExit ==
    /\ ctl.threads > 0
    /\ ctl.exited
    /\ ctl' = [ctl EXCEPT !.threads = @ - 1, !.exited = FALSE]
    /\ last' = Outcome("thread exit", 0, "none", 0, <<>>)
    /\ UNCHANGED <<inodes, paths, archive, work_dir, opens, pending, hist>>

NextLife ==
    \/ New
    \/ Mount
    \/ Unmount
    \/ Destroy
    \/ ThreadExit
    \/ ArchiveUpdate(ReadMembers)
    \/ UpdateInodes

SpecLife == InitLife /\ [][NextLife]_vars

(***************************************************************************)
(* fr_fuse_update_inodes one loop iteration at a time.  The host thread    *)
(* runs it with no lock while the loop thread serves the kernel's          *)
(* requests, so a handler can run between any two iterations.  ctl.pass    *)
(* holds the loop the call is in, its index and the table the call found.  *)
(***************************************************************************)
(* A first-loop body that deletes nothing. *)
delete_iteration_keeping(t, arc, i) == t

(* The body of the first loop, for index i. *)
DeleteIteration(t, arc, i) ==
    IF Slot(t, i) = NULL THEN t
    ELSE IF ~FilesHashContains(arc, Slot(t, i).original_path)
         THEN fr_fuse_delete_inode(t, i)
         ELSE t

(* The body of the second loop, for the k-th element of the listing. *)
InsertIteration(t, files, k) ==
    IF ~HashContains(t.paths, files[k].full_path)
    THEN fr_fuse_create_inode(t, files[k])
    ELSE t

(* Where the call stands when the first loop is about to test index i, and *)
(* when the second loop is about to test element k.                        *)
FirstLoopAt(t, arc, i, start) ==
    IF i < Len(t.inodes) THEN [phase |-> "delete", i |-> i, start |-> start]
    ELSE IF ArchiveFiles(arc) # <<>> THEN [phase |-> "insert", i |-> 1, start |-> start]
    ELSE [phase |-> "idle", i |-> 0, start |-> start]

SecondLoopAt(arc, k, start) ==
    IF k <= Len(ArchiveFiles(arc)) THEN [phase |-> "insert", i |-> k, start |-> start]
    ELSE [phase |-> "idle", i |-> 0, start |-> start]

PassOutcome(step, pass) ==
    Outcome("update_inodes", 0, "none", 0,
            <<step, IF pass.phase = "idle" THEN "returned" ELSE "running">>)

UpdateBegin ==
    LET pass == FirstLoopAt(Table, archive, FR_FUSE_INODE_START, Table)
    IN  /\ ctl.obj = "live" /\ ctl.started /\ ctl.pass.phase = "idle"
        /\ Len(fr_fuse_update_inodes(Table, archive).inodes) <= MaxInodes
        /\ ctl' = [ctl EXCEPT !.pass = pass]
        /\ last' = PassOutcome("begin", pass)
        /\ UNCHANGED <<inodes, paths, archive, work_dir, opens, pending, hist>>

UpdateDelete ==
    LET t == DeleteIteration(Table, archive, ctl.pass.i)
        pass == FirstLoopAt(t, archive, ctl.pass.i + 1, ctl.pass.start)
    IN  /\ ctl.pass.phase = "delete"
        /\ inodes' = t.inodes
        /\ paths' = t.paths
        /\ ctl' = [ctl EXCEPT !.pass = pass]
        /\ last' = PassOutcome("delete", pass)
        /\ UNCHANGED <<archive, work_dir, opens, pending, hist>>

UpdateInsert ==
    LET t == InsertIteration(Table, ArchiveFiles(archive), ctl.pass.i)
        pass == SecondLoopAt(archive, ctl.pass.i + 1, ctl.pass.start)
    IN  /\ ctl.pass.phase = "insert"
        /\ inodes' = t.inodes
        /\ paths' = t.paths
        /\ opens' = GrowTo(opens, t, 0)
        /\ hist' = [hist EXCEPT !.born = Grown(hist.born, t),
                                !.rd = GrowTo(hist.rd, t, NoReads)]
        /\ ctl' = [ctl EXCEPT !.pass = pass]
        /\ last' = PassOutcome("insert", pass)
        /\ UNCHANGED <<archive, work_dir, pending>>

(* The host changes the archive between two calls, on the thread that      *)
(* makes the calls.                                                        *)
HostArchiveUpdate == ctl.pass.phase = "idle" /\ ArchiveUpdate(Members)

(* The kernel looks a name up in the root. *)
RootLookup ==
    \E name \in LookupNames :
        /\ last' = fr_fuse_lookup(Table, FUSE_ROOT_ID, name)
        /\ UNCHANGED <<inodes, paths, archive, work_dir, opens, pending, hist, ctl>>

NextRace ==
    \/ HostArchiveUpdate
    \/ UpdateBegin
    \/ UpdateDelete
    \/ UpdateInsert
    \/ RootLookup
    \/ Getattr

SpecRace == Init /\ [][NextRace]_vars

(***************************************************************************)
(* fr_fuse_unmount beside a request in flight.  fuse_session_loop, on the  *)
(* loop thread, receives a request and calls its handler; the host thread  *)
(* calls fr_fuse_unmount with no lock and without waiting for the loop     *)
(* thread.  ctl.req is the request the loop thread has received and whose  *)
(* handler has not yet read the table.                                     *)
(***************************************************************************)
Requests ==
    {[op |-> "getattr", ino |-> i, name |-> ""] : i \in KernelInodes}
    \cup {[op |-> "lookup", ino |-> FUSE_ROOT_ID, name |-> n] : n \in LookupNames}

(* What a handler that reads ff->inodes can do once fr_fuse_unmount has    *)
(* cleared and unreferenced it: dereference the NULL it finds there, or    *)
(* read the freed array through the pointer it loaded before.              *)
ReleasedAccess == {"SIGSEGV", "freed memory"}

(* The handler of request r on the table t. *)
Handler(t, r) ==
    IF r.op = "getattr" THEN fr_fuse_getattr(t, r.ino)
    ELSE fr_fuse_lookup(t, r.ino, r.name)

(* fuse_session_loop receives a request from the kernel. *)
Dispatch ==
    \E r \in Requests :
        /\ ctl.obj = "live" /\ ctl.started /\ ctl.threads > 0
        /\ ctl.req = NULL
        /\ ctl' = [ctl EXCEPT !.req = r]
        /\ last' = Outcome("dispatch", r.ino, "none", 0, <<r.op>>)
        /\ UNCHANGED <<inodes, paths, archive, work_dir, opens, pending, hist>>

(* The handler runs: nothing in it tests ff->started. *)
Handle ==
    /\ ctl.req # NULL
    /\ IF Table # NullTable
       THEN last' = Handler(Table, ctl.req)
       ELSE \E how \in ReleasedAccess :
                last' = Outcome(ctl.req.op, ctl.req.ino, how, 0, <<>>)
    /\ ctl' = [ctl EXCEPT !.req = NULL]
    /\ UNCHANGED <<inodes, paths, archive, work_dir, opens, pending, hist>>

(* fuse_session_loop tests the exit flag between two requests. *)
LoopReturn == ctl.req = NULL /\ ThreadExit

NextUnmount ==
    \/ HostArchiveUpdate
    \/ UpdateInodes
    \/ Dispatch
    \/ Handle
    \/ Unmount
    \/ LoopReturn

SpecUnmount == Init /\ [][NextUnmount]_vars

(***************************************************************************)
(* Properties.                                                             *)
(***************************************************************************)
LiveInodes == {i \in FR_FUSE_INODE_START..(Len(inodes) - 1) : Slot(Table, i) # NULL}

KernelOps == {"lookup", "getattr", "readdir", "open", "read", "release"}

(* C1: after every Create and Delete, in any order and with any entries    *)
(* (also an entry whose full path a live slot already holds), every live   *)
(* slot's full path is a key of the reverse map and maps to that slot, and *)
(* every key of the reverse map is the full path of a live slot.           *)
C1_MapAgreesWithTable ==
    /\ \A i \in LiveInodes :
          /\ HashContains(paths, Slot(Table, i).full_path)
          /\ paths[Slot(Table, i).full_path] = i
    /\ \A p \in DOMAIN paths :
          \E i \in LiveInodes : Slot(Table, i).full_path = p

(* C2: inode numbers are never reused: the table never shrinks, a slot     *)
(* changes only from live to hole and a hole stays a hole, Create returns  *)
(* the next number, which is past every number given before, and entries   *)
(* get numbers from the first usable id on.                                *)
C2_Step ==
    /\ Len(inodes') >= Len(inodes)
    /\ \A i \in 1..Len(inodes) :
          inodes'[i] = inodes[i] \/ (inodes[i] # NULL /\ inodes'[i] = NULL)
    /\ \A i \in (Len(inodes) + 1)..Len(inodes') :
          inodes'[i] # NULL => i - 1 >= FR_FUSE_INODE_START
    /\ last'.op = "create" =>
          last'.ino = Len(inodes) /\ Len(inodes') = Len(inodes) + 1

C2_NeverReused == [][C2_Step]_vars

(* A deleted entry's number is a hole and the entry, created again, has a  *)
(* later number.                                                           *)
C2_Witness ==
    \E i \in FR_FUSE_INODE_START..(Len(inodes) - 1) : \E j \in LiveInodes :
        /\ i < j
        /\ Slot(Table, i) = NULL
        /\ hist.born[i + 1] # NULL
        /\ Slot(Table, j).original_path = hist.born[i + 1]

(* C3: over any sequence of reconciliations, no two live slots hold the    *)
(* same full path, and a live slot whose path is in the listing that is    *)
(* reconciled keeps its inode number and its descriptor.                   *)
C3_Unique ==
    \A i \in LiveInodes : \A j \in LiveInodes :
        Slot(Table, i).full_path = Slot(Table, j).full_path => i = j

ListedPaths(arc) == {ArchiveFiles(arc)[k].full_path : k \in 1..Len(ArchiveFiles(arc))}

C3_Kept ==
    \A i \in LiveInodes :
        Slot(Table, i).full_path \in ListedPaths(archive') =>
            /\ Len(inodes') > i
            /\ inodes'[i + 1] = inodes[i + 1]

C3_StableIdentity == []C3_Unique /\ [][C3_Kept]_vars

(* After a reconciliation, a live slot precedes a hole: the slot was kept  *)
(* by the reconciliation that deleted the later one.                       *)
C3_Witness ==
    /\ last.op = "update"
    /\ \E i \in LiveInodes : \E k \in (i + 1)..(Len(inodes) - 1) :
          Slot(Table, k) = NULL /\ hist.born[k + 1] # NULL

(* C4: every kernel request handed to a handler is answered exactly once,  *)
(* whether the handler answers at once or the read callbacks do.           *)
C4_AnsweredOnce ==
    (last.op \in KernelOps /\ last.err # "pending") => last.replies = 1

(* C5: when no handle is open on a member and no read of it is in flight,  *)
(* the work directory holds no extracted copy of it.                       *)
C5_NoScratchLeak ==
    \A o \in Files :
        (/\ HandlesOf(opens, o) = 0
         /\ \A k \in 1..Len(pending) : pending[k].original_path # o)
        => work_dir[o] = NULL

(* C6: two reads of an open file answered from its extracted copy, with no *)
(* release of it in between, had the member written to the work directory  *)
(* exactly once.                                                           *)
C6_ExtractedOnce ==
    \A i \in 1..Len(hist.rd) : hist.rd[i].ok >= 2 => hist.rd[i].wr = 1

(* C7: the reply to a read of a loaded file of length L carries the bytes  *)
(* from offset up to min(offset + size, L): none when offset >= L, L -     *)
(* offset of them when offset + size > L, size of them otherwise.          *)
C7_ReplyIsTheSlice ==
    (last.op = "read" /\ last.err = "ok") =>
        LET L == Len(last.buf)
            n == IF last.off >= L THEN 0
                 ELSE IF last.off + last.size > L THEN L - last.off
                 ELSE last.size
        IN  /\ Len(last.data) = n
            /\ \A k \in 1..n : last.data[k] = last.buf[last.off + k]

(* A read that asks for more than is left is answered with what is left. *)
C7_Witness ==
    /\ last.op = "read"
    /\ last.err = "ok"
    /\ last.off < Len(last.buf)
    /\ last.off + last.size > Len(last.buf)
    /\ Len(last.data) = Len(last.buf) - last.off

(* C8: the first read after a member's last handle was released, the       *)
(* archive got new content of it and it was opened again is answered from  *)
(* the content the archive held when the read was issued.                  *)
C8_FreshAfterRelease ==
    (last.op = "read" /\ last.err = "ok" /\ last.fresh # NULL) =>
        last.buf = last.fresh.bytes

(* C9: the release of a regular-file inode of which no read was ever       *)
(* issued deletes nothing from the work directory and replies no error.    *)
C9_ReleaseOfUnread ==
    (/\ last.op = "release"
     /\ last.err \notin {"ENOENT", "EISDIR"}
     /\ ~hist.rd[last.ino + 1].is)
    => (last.data = <<>> /\ last.err = "none")

(* C10: a reconciliation that follows a reconciliation, the listing        *)
(* unchanged, creates no inode, deletes none and leaves the table and the  *)
(* reverse map as they were.                                               *)
C10_Idempotent ==
    (last.op = "update" /\ last.data[1] = "again") =>
        (last.data[2] = 0 /\ last.data[3] = 0 /\ last.data[4] = "same")

(* A second reconciliation of a table that holds an entry and a hole. *)
C10_Witness ==
    /\ last.op = "update"
    /\ last.data[1] = "again"
    /\ LiveInodes # {}
    /\ \E k \in FR_FUSE_INODE_START..(Len(inodes) - 1) : Slot(Table, k) = NULL

Has(seq, x) == \E k \in 1..Len(seq) : seq[k] = x

(* C12: Mount on a started bridge and Unmount on a stopped bridge change   *)
(* nothing: the table, the reverse map, the session, the threads and the   *)
(* state are as before the call.                                           *)
C12_Step ==
    /\ (last'.op = "mount" /\ last'.data[1] = "started" /\ last' # last) =>
          UNCHANGED <<inodes, paths, ctl, archive, work_dir, opens, pending>>
    /\ (last'.op = "unmount" /\ last'.data[1] = "stopped" /\ last' # last) =>
          UNCHANGED <<inodes, paths, ctl, archive, work_dir, opens, pending>>

C12_Idempotent == [][C12_Step]_vars

(* Mount was called on a started bridge whose table holds an entry. *)
C12_Witness ==
    /\ last.op = "mount"
    /\ last.data[1] = "started"
    /\ ctl.started
    /\ LiveInodes # {}

(* C13: when the kernel refuses the mount point, the caller is handed the  *)
(* mount-failure error, the bridge stays stopped (no mount directory is    *)
(* given out), no loop thread and no inode table were made, and the bridge *)
(* object still exists.                                                    *)
C13_MountFailure ==
    (/\ last.op \in {"new", "mount"}
     /\ last.data[1] = "stopped"
     /\ last.data[2] = "session"
     /\ last.data[3] = "refused")
    => (/\ last.err = "FUSE_MOUNT"
        /\ ~ctl.started
        /\ fr_fuse_get_mount_dir(ctl) = NULL
        /\ ctl.mounts = 0 \/ last.op = "mount"
        /\ last.op = "mount" => ~Has(last.data[5], "g_thread_try_new")
        /\ Table = NullTable
        /\ ctl.obj = "live")

(* C19: Unmount clears started before anything else and joins no thread;   *)
(* once Destroy has completed no loop thread is running, so the temporary  *)
(* directories were removed after the thread ended.                        *)
C19_UnmountThenJoin ==
    /\ (last.op \in {"unmount", "destroy"} /\ last.data[1] = "started") =>
          /\ last.data[2][1] = "started"
          /\ last.op = "unmount" => ~Has(last.data[2], "g_thread_join")
    /\ (last.op = "destroy" /\ ctl.obj = "freed") =>
          /\ ctl.threads = 0
          /\ ~ctl.dirs

LiveFiles == {i \in LiveInodes : ~Slot(Table, i).dir}

LiveDirs == {i \in LiveInodes : Slot(Table, i).dir}

(* C14: Open is accepted only for a live regular-file inode opened with    *)
(* neither a write nor an append flag; the root and a directory are        *)
(* rejected with EISDIR, an unknown inode with ENOENT, a write or append   *)
(* flag with EACCES; Open changes neither the table nor the work           *)
(* directory.                                                              *)
C14_Step ==
    (last'.op = "open" /\ last' # last) =>
        /\ UNCHANGED <<inodes, paths, work_dir>>
        /\ last'.err \in {"ok", "EISDIR", "EACCES", "ENOENT"}
        /\ last'.err = "ok" =>
              /\ last'.ino \in LiveFiles
              /\ last'.data[1] = "O_RDONLY"
              /\ last'.data[2] # "O_APPEND"
        /\ last'.err = "EISDIR" => last'.ino \in LiveDirs \cup {FUSE_ROOT_ID}
        /\ last'.err = "ENOENT" => last'.ino \notin LiveInodes
        /\ last'.err = "EACCES" => last'.ino # FUSE_ROOT_ID

C14_OpenRejects == [][C14_Step]_vars

(* C15: Lookup (parent, ".") on the root or on a live directory replies    *)
(* the entry of that same parent.                                          *)
C15_DotIsParent ==
    (/\ last.op = "lookup"
     /\ last.data[1] = "."
     /\ last.ino \in LiveDirs \cup {FUSE_ROOT_ID})
    => (last.err = "ok" /\ last.data[2].ino = last.ino)

(* C16: the size of the root is the sum of the sizes of exactly the live   *)
(* slots whose canonical parent path is the root, the byte size of a file  *)
(* and the aggregate size of a directory; it is what getattr of the root   *)
(* replies.                                                                *)
TopLevel == {i \in LiveInodes : Canonicalize(Slot(Table, i).path) = <<"/">>}

SizeOfSlot(i) == IF Slot(Table, i).dir THEN Slot(Table, i).dir_size ELSE Slot(Table, i).size

RECURSIVE SumOver(_)
SumOver(S) ==
    IF S = {} THEN 0
    ELSE LET x == CHOOSE y \in S : TRUE IN SizeOfSlot(x) + SumOver(S \ {x})

C16_RootSize ==
    /\ fr_fuse_get_size_by_ino(Table, FUSE_ROOT_ID) = SumOver(TopLevel)
    /\ (last.op = "getattr" /\ last.ino = FUSE_ROOT_ID) =>
          /\ last.err = "ok"
          /\ last.data[1].size = SumOver(TopLevel)

(* getattr of the root replied a size while the table holds a hole, a      *)
(* top-level entry and an entry below a directory.                         *)
C16_Witness ==
    /\ last.op = "getattr"
    /\ last.ino = FUSE_ROOT_ID
    /\ last.data[1].size > 0
    /\ TopLevel # {}
    /\ \E i \in LiveInodes \ TopLevel : SizeOfSlot(i) > 0
    /\ \E k \in FR_FUSE_INODE_START..(Len(inodes) - 1) : Slot(Table, k) = NULL

(* C20: readdir of the root or of a live directory replies the part, from  *)
(* the offset and at most the size long, of the buffer that holds one      *)
(* entry (inode number, name) for exactly each live slot whose canonical   *)
(* parent path is the directory's canonical path, by increasing inode      *)
(* number; nothing when the offset is at or past the buffer's end.         *)
RECURSIVE Ascending(_)
Ascending(S) ==
    IF S = {} THEN <<>>
    ELSE LET m == CHOOSE x \in S : \A y \in S : x <= y
         IN  <<m>> \o Ascending(S \ {m})

DirPathOf(ino) ==
    IF ino = FUSE_ROOT_ID THEN <<"/">> ELSE Canonicalize(Slot(Table, ino).full_path)

ListedIn(ino) ==
    Ascending({i \in LiveInodes : Canonicalize(Slot(Table, i).path) = DirPathOf(ino)})

(* Cell c (from 1) of the buffer of entries e: entry (c + 1) \div 2, its   *)
(* header when c is odd and its name when c is even.                       *)
ExpectedCell(e, c) ==
    LET k == (c + 1) \div 2
    IN  IF c % 2 = 1 THEN [d_ino |-> e[k], d_off |-> 2 * k]
        ELSE [d_name |-> Slot(Table, e[k]).name]

C20_Listing ==
    (/\ last.op = "readdir"
     /\ last.ino \in LiveDirs \cup {FUSE_ROOT_ID})
    => LET e == ListedIn(last.ino)
           L == 2 * Len(e)
           n == IF last.off >= L THEN 0
                ELSE IF last.off + last.size > L THEN L - last.off ELSE last.size
       IN  /\ last.err = "ok"
           /\ Len(last.data) = n
           /\ \A c \in 1..n : last.data[c] = ExpectedCell(e, last.off + c)

(* readdir of the root replied its second entry, whose inode number lies   *)
(* past a hole.                                                            *)
C20_Witness ==
    /\ last.op = "readdir"
    /\ last.ino = FUSE_ROOT_ID
    /\ last.off = 2
    /\ Len(last.data) = 2
    /\ Len(ListedIn(FUSE_ROOT_ID)) = 2
    /\ last.data[1].d_ino = ListedIn(FUSE_ROOT_ID)[2]
    /\ \E k \in FR_FUSE_INODE_START..(last.data[1].d_ino - 1) : Slot(Table, k) = NULL

(* C18: with two handles open on one file, every read through a handle    *)
(* that is still open is answered with the requested part of the member's  *)
(* bytes, whatever the order of the reads, the completions and the         *)
(* release of the other handle.                                            *)
C18_OverlappingOpens ==
    (/\ last.op = "read"
     /\ last.replies = 1
     /\ last.ino \in LiveFiles
     /\ opens[last.ino + 1] >= 1)
    => LET bytes == archive[Slot(Table, last.ino).original_path].bytes
           L == Len(bytes)
           n == IF last.off >= L THEN 0
                ELSE IF last.off + last.size > L THEN L - last.off ELSE last.size
       IN  /\ last.err = "ok"
           /\ Len(last.data) = n
           /\ \A k \in 1..n : last.data[k] = bytes[last.off + k]

LivePaths(t) ==
    {t.inodes[i + 1].full_path :
        i \in {j \in FR_FUSE_INODE_START..(Len(t.inodes) - 1) : Slot(t, j) # NULL}}

(* C11: no handler runs on a table that a running fr_fuse_update_inodes    *)
(* has changed in part: a handler that answers while a call is between its *)
(* start and its return sees the table the call found or the table the     *)
(* call leaves.                                                            *)
C11_Serialized ==
    (last.op \in KernelOps /\ ctl.pass.phase # "idle")
    => \/ Table = ctl.pass.start
       \/ Table = fr_fuse_update_inodes(ctl.pass.start, archive)

(* C17: when fr_fuse_update_inodes returns, the full paths of the live     *)
(* slots are the paths of the archive's listing: every slot that was live  *)
(* with a path not listed is a hole, every listed path that the map did    *)
(* not hold has a new slot; and within a call every deletion comes before  *)
(* every insertion.                                                        *)
C17_Returned ==
    (last.op = "update_inodes" /\ last.data[2] = "returned") =>
        LET start == ctl.pass.start
        IN  /\ LivePaths(Table) = ListedPaths(archive)
            /\ \A i \in FR_FUSE_INODE_START..(Len(start.inodes) - 1) :
                  (Slot(start, i) # NULL /\ Slot(start, i).full_path \notin ListedPaths(archive))
                  => Slot(Table, i) = NULL
            /\ \A p \in ListedPaths(archive) :
                  ~HashContains(start.paths, p) =>
                      \E i \in Len(start.inodes)..(Len(inodes) - 1) :
                          Slot(Table, i) # NULL /\ Slot(Table, i).full_path = p
            /\ Table = fr_fuse_update_inodes(start, archive)

C17_Order ==
    /\ Deletes(Table, [inodes |-> inodes', paths |-> paths']) > 0
          => (ctl.pass.phase = "delete" /\ last'.data[1] = "delete")
    /\ Creates(Table, [inodes |-> inodes', paths |-> paths']) > 0
          => (ctl.pass.phase = "insert" /\ last'.data[1] = "insert")
    /\ ctl.pass.phase = "insert" => ctl'.pass.phase # "delete"

C17_Reconciled == []C17_Returned /\ [][C17_Order]_vars

(* A call returned after it deleted a slot and created another.            *)
C17_Witness ==
    /\ last.op = "update_inodes"
    /\ last.data[2] = "returned"
    /\ Deletes(ctl.pass.start, Table) > 0
    /\ Creates(ctl.pass.start, Table) > 0

(* C21: the last-error slot holds the latest failure recorded: after an   *)
(* extraction that failed it holds the extraction failure, after a load    *)
(* that failed the load failure, after a deletion that failed the deletion *)
(* failure, whatever it held before; and the read goes on to its reply     *)
(* after a failure at either stage, an empty buffer when the load failed.  *)
C21_LastErrorOverwritten ==
    /\ last.op = "extracted" =>
          /\ \E k \in 1..Len(pending) :
                pending[k].ino = last.ino /\ pending[k].stage = "load"
          /\ last.data = <<"failed">> => ctl.error = "EXTRACT"
    /\ (last.op = "read" /\ last.err = "EIO-load") =>
          /\ last.replies = 1
          /\ last.data = <<>>
          /\ ctl.error = "LOAD"
    /\ (last.op = "release" /\ Has(last.data, "failed")) => ctl.error = "DELETE"

(* C22: no handler reads the inode table or the reverse map once          *)
(* fr_fuse_unmount has released them: whenever a handler runs, the table   *)
(* is the live one.                                                        *)
C22_Step == (ctl.req # NULL /\ ctl'.req = NULL) => (ctl.started /\ Table # NullTable)

C22_NoAccessAfterUnmount == [][C22_Step]_vars

====
